---- MODULE Spec2Model ----
(***************************************************************************)
(* A model of the liaotian backend schema and row-level-security policies *)
(* (supabase/migrations/database_structure.sql) and of the settings page  *)
(* (src/components/Settings.tsx).                                         *)
(*                                                                         *)
(* The database is a set of rows per table.  A policy is an operator      *)
(* Policy(uid, row) that is TRUE exactly when the SQL predicate evaluates *)
(* to TRUE for the caller uid (a NULL result grants nothing).  A subquery *)
(* inside a policy reads the queried table through that table's own       *)
(* SELECT policies, as the backend does for the calling role.             *)
(***************************************************************************)
EXTENDS Integers, Sequences, FiniteSets, TLC

VARIABLES
  profiles,        \* table profiles
  posts,           \* table posts
  follows,         \* table follows
  messages,        \* table messages
  groups,          \* table groups
  group_members,   \* table group_members
  lastOp,          \* the latest request a client issued and its outcome
  evalStmt,        \* the statement whose policies the backend is evaluating
  evalTodo,        \* policies of that statement not yet evaluated
  evalStack,       \* policies under evaluation, the innermost last
  objects,         \* table storage.objects
  authUsersReadable, \* whether the caller's role may read auth.users
  newUsername,     \* Settings: the username input
  loading,         \* Settings: a request is in flight
  message,         \* Settings: the banner shown
  profile,         \* the cached profile of the signed-in user
  pc,              \* where handleUsernameChange is suspended
  closure,         \* newUsername and profile as the running handler sees them
  timers,          \* pending setTimeout callbacks that clear the banner
  sent,            \* requests the page has sent since the latest click
  themeRun,        \* the run of handleThemeChange in flight
  reason,          \* Settings: the verification reason input
  showApply,       \* Settings: the verification form is open
  verifyRun,       \* the run of handleVerificationApply in flight
  newEmail,        \* Settings: the email input
  newPassword,     \* Settings: the password input
  confirmPassword, \* Settings: the password confirmation input
  authUser,        \* what the identity service holds for the signed-in user
  accountRun,      \* the run of handleEmailChange / handlePasswordChange in flight
  other,           \* handleUsernameChange on another client's page
  pg_policies,     \* the policies the database has, each a name on a table
  pg_tables,       \* the tables the database has
  ddl              \* the run of the policy statements: where it stands

dbVars == <<profiles, posts, follows, messages, groups, group_members>>
evalVars == <<evalStmt, evalTodo, evalStack>>
storageVars == <<objects, authUsersReadable>>
ddlVars == <<pg_policies, pg_tables, ddl>>
pageVars == <<themeRun, reason, showApply, verifyRun, newEmail, newPassword,
              confirmPassword, authUser, accountRun, other>>
settingsVars == <<newUsername, loading, message, profile, pc, closure, timers, sent,
                  pageVars>>
vars == <<profiles, posts, follows, messages, groups, group_members, lastOp,
          evalStmt, evalTodo, evalStack, objects, authUsersReadable,
          newUsername, loading, message, profile, pc, closure, timers, sent,
          themeRun, reason, showApply, verifyRun, newEmail, newPassword,
          confirmPassword, authUser, accountRun, other, pg_policies, pg_tables,
          ddl>>

----------------------------------------------------------------------------
(* Universe of the model *)

NULL == "NULL"

\* auth.users ids (uuid values)
Users == {"u1", "u2", "u3"}

\* groups.id values
GroupIds == {"g1", "g2"}

\* messages.id values
MessageIds == {"m1", "m2"}

\* posts.id values
PostIds == {"p1"}

\* at most this many rows in group_members
MaxMembers == 2

\* at most this many rows in the database a profile is deleted from
MaxRows == 2

\* at most this many objects in the bucket
MaxObjects == 1

\* at most this many path segments in an object key
MaxKeyLen == 2

\* at most this many characters in a username
MaxNameLen == 2

\* at most this many pending banner timers
MaxTimers == 1

\* newPassword.length < 6
MinPasswordLen == 6


----------------------------------------------------------------------------
(* SQL comparison: a = b and a <> b are TRUE only when neither side is NULL *)

SqlEq(a, b) == a # NULL /\ b # NULL /\ a = b

SqlNe(a, b) == a # NULL /\ b # NULL /\ a # b

ProfileIds == {p.id : p \in profiles}

----------------------------------------------------------------------------
(* Policies for group_members: SELECT *)

\* variant: a member row visible to every member of the same group, as under
\* the dropped policy "Members viewable by members"
MembersViewableByMembers(uid, row) ==
  \E gm \in group_members : SqlEq(gm.group_id, row.group_id) /\ SqlEq(gm.user_id, uid)

MembersViewableBySelf(uid, row) == SqlEq(row.user_id, uid)

\* SELECT ... FROM group_members as uid sees it
SelectGroupMembers(uid) == {gm \in group_members : MembersViewableBySelf(uid, gm)}

(* Policies for groups *)

\* variant: without the creator branch
GroupsViewableByMembersOnly(uid, row) ==
  \E gm \in SelectGroupMembers(uid) : SqlEq(gm.group_id, row.id) /\ SqlEq(gm.user_id, uid)

GroupsViewableByMembers(uid, row) ==
  \/ SqlEq(row.creator_id, uid)
  \/ \E gm \in SelectGroupMembers(uid) : SqlEq(gm.group_id, row.id) /\ SqlEq(gm.user_id, uid)

SelectGroups(uid) == {g \in groups : GroupsViewableByMembers(uid, g)}

CreatorsCanCreateGroups(uid, row) == SqlEq(uid, row.creator_id)

AdminsAndCreatorsCanUpdateGroups(uid, row) ==
  \/ SqlEq(uid, row.creator_id)
  \/ \E gm \in SelectGroupMembers(uid) :
       SqlEq(gm.group_id, row.id) /\ SqlEq(gm.user_id, uid) /\ gm.is_admin = TRUE

AdminsAndCreatorsCanDeleteGroups(uid, row) ==
  \/ SqlEq(uid, row.creator_id)
  \/ \E gm \in SelectGroupMembers(uid) :
       SqlEq(gm.group_id, row.id) /\ SqlEq(gm.user_id, uid) /\ gm.is_admin = TRUE

(* Policies for group_members: INSERT, UPDATE, DELETE *)

\* EXISTS (SELECT 1 FROM groups WHERE id = row.group_id AND creator_id = uid)
ExistsCreatedGroup(uid, row) ==
  \E g \in SelectGroups(uid) : SqlEq(g.id, row.group_id) /\ SqlEq(g.creator_id, uid)

\* EXISTS (SELECT 1 FROM group_members gm WHERE gm.group_id = row.group_id
\*         AND gm.user_id = uid AND gm.is_admin = true)
ExistsAdminMembership(uid, row) ==
  \E gm \in SelectGroupMembers(uid) :
    SqlEq(gm.group_id, row.group_id) /\ SqlEq(gm.user_id, uid) /\ gm.is_admin = TRUE

\* variant: the membership test without gm.is_admin = true
MembersAndCreatorsCanInsertMembers(uid, row) ==
  \/ ExistsCreatedGroup(uid, row)
  \/ \E gm \in SelectGroupMembers(uid) :
       SqlEq(gm.group_id, row.group_id) /\ SqlEq(gm.user_id, uid)

AdminsAndCreatorsCanInsertMembers(uid, row) ==
  ExistsCreatedGroup(uid, row) \/ ExistsAdminMembership(uid, row)

\* variant: without the guard auth.uid() <> user_id
AdminsAndCreatorsCanUpdateOwnRole(uid, row) ==
  ExistsCreatedGroup(uid, row) \/ ExistsAdminMembership(uid, row)

AdminsAndCreatorsCanUpdateMemberRoles(uid, row) ==
  /\ ExistsCreatedGroup(uid, row) \/ ExistsAdminMembership(uid, row)
  /\ SqlNe(uid, row.user_id)

AdminsCreatorsAndMemberCanDeleteMembers(uid, row) ==
  \/ SqlEq(uid, row.user_id)
  \/ ExistsCreatedGroup(uid, row)
  \/ ExistsAdminMembership(uid, row)

----------------------------------------------------------------------------
(* Policies for messages *)

\* variant: without the test group_id IS NULL
UsersCanViewOwnMessages(uid, row) ==
  SqlEq(uid, row.sender_id) \/ SqlEq(uid, row.recipient_id)

UsersCanViewDMs(uid, row) ==
  /\ SqlEq(uid, row.sender_id) \/ SqlEq(uid, row.recipient_id)
  /\ row.group_id = NULL

\* variant: the membership subquery without group_id = messages.group_id
MembersCanViewGroupMessages(uid, row) ==
  /\ row.group_id # NULL
  /\ \E gm \in SelectGroupMembers(uid) : SqlEq(gm.user_id, uid)

UsersCanViewGroupMessages(uid, row) ==
  /\ row.group_id # NULL
  /\ \E gm \in SelectGroupMembers(uid) :
       SqlEq(gm.group_id, row.group_id) /\ SqlEq(gm.user_id, uid)

\* SELECT ... FROM messages as uid sees it: permissive policies are OR-ed
MessagesViewable(uid, row) ==
  UsersCanViewDMs(uid, row) \/ UsersCanViewGroupMessages(uid, row)

SelectMessages(uid) == {m \in messages : MessagesViewable(uid, m)}

UsersCanSendDMs(uid, row) == SqlEq(uid, row.sender_id) /\ row.group_id = NULL

UsersCanSendGroupMessages(uid, row) ==
  /\ row.group_id # NULL
  /\ SqlEq(uid, row.sender_id)
  /\ \E gm \in SelectGroupMembers(uid) :
       SqlEq(gm.group_id, row.group_id) /\ SqlEq(gm.user_id, uid)

\* USING of "Users can mark DMs as read"
UsersCanMarkDMsAsRead(uid, row) == SqlEq(uid, row.recipient_id) /\ row.group_id = NULL

\* WITH CHECK of "Users can mark DMs as read"
UsersCanMarkDMsAsReadCheck(uid, row) == SqlEq(uid, row.recipient_id)

----------------------------------------------------------------------------
(* What the backend grants.  An UPDATE or DELETE that names its target row *)
(* in a WHERE clause reads the row, so the row must pass the table's       *)
(* SELECT policy as well as the command's USING policy; the row an UPDATE  *)
(* writes must pass WITH CHECK and the SELECT policy.                      *)

GrantInsertGroup(uid, new) == CreatorsCanCreateGroups(uid, new)

GrantUpdateGroup(uid, old, new) ==
  /\ GroupsViewableByMembers(uid, old)
  /\ AdminsAndCreatorsCanUpdateGroups(uid, old)
  /\ AdminsAndCreatorsCanUpdateGroups(uid, new)
  /\ GroupsViewableByMembers(uid, new)

GrantDeleteGroup(uid, old) ==
  /\ GroupsViewableByMembers(uid, old)
  /\ AdminsAndCreatorsCanDeleteGroups(uid, old)

GrantInsertMember(uid, new) == AdminsAndCreatorsCanInsertMembers(uid, new)

GrantUpdateMember(uid, old, new) ==
  /\ MembersViewableBySelf(uid, old)
  /\ AdminsAndCreatorsCanUpdateMemberRoles(uid, old)
  /\ MembersViewableBySelf(uid, new)

GrantDeleteMember(uid, old) ==
  /\ MembersViewableBySelf(uid, old)
  /\ AdminsCreatorsAndMemberCanDeleteMembers(uid, old)

GrantInsertMessage(uid, new) ==
  UsersCanSendDMs(uid, new) \/ UsersCanSendGroupMessages(uid, new)

GrantUpdateMessage(uid, old, new) ==
  /\ MessagesViewable(uid, old)
  /\ UsersCanMarkDMsAsRead(uid, old)
  /\ UsersCanMarkDMsAsReadCheck(uid, new)
  /\ MessagesViewable(uid, new)

----------------------------------------------------------------------------
(* Requests on groups and group_members *)

Op(kind, uid, ok) == [kind |-> kind, caller |-> uid, ok |-> ok]

GroupRow(id, creator) == [id |-> id, creator_id |-> creator]

MemberRow(g, u, a) == [group_id |-> g, user_id |-> u, is_admin |-> a]

\* INSERT INTO groups (id, creator_id): primary key id, creator_id references profiles
InsertGroup(uid, new) ==
  /\ new.id \notin {g.id : g \in groups}
  /\ new.creator_id = NULL \/ new.creator_id \in ProfileIds
  /\ IF GrantInsertGroup(uid, new)
       THEN groups' = groups \cup {new}
       ELSE UNCHANGED groups
  /\ lastOp' = Op("insert_group", uid, GrantInsertGroup(uid, new))
  /\ UNCHANGED <<evalVars, storageVars, ddlVars, settingsVars>>
  /\ UNCHANGED <<profiles, posts, follows, messages, group_members>>

\* UPDATE groups SET creator_id = new.creator_id WHERE id = old.id
UpdateGroup(uid, old, new) ==
  /\ old \in groups
  /\ new.id = old.id
  /\ new.creator_id = NULL \/ new.creator_id \in ProfileIds
  /\ IF GrantUpdateGroup(uid, old, new)
       THEN groups' = (groups \ {old}) \cup {new}
       ELSE UNCHANGED groups
  /\ lastOp' = Op("update_group", uid, GrantUpdateGroup(uid, old, new))
  /\ UNCHANGED <<evalVars, storageVars, ddlVars, settingsVars>>
  /\ UNCHANGED <<profiles, posts, follows, messages, group_members>>

\* DELETE FROM groups WHERE id = old.id; group_members.group_id and
\* messages.group_id reference groups ON DELETE CASCADE, and
\* messages.reply_to_id references messages ON DELETE SET NULL
DeleteGroup(uid, old) ==
  /\ old \in groups
  /\ IF GrantDeleteGroup(uid, old)
       THEN /\ groups' = groups \ {old}
            /\ group_members' = {gm \in group_members : gm.group_id # old.id}
            /\ LET gone == {m.id : m \in {x \in messages : x.group_id = old.id}}
               IN messages' =
                    {IF m.reply_to_id \in gone THEN [m EXCEPT !.reply_to_id = NULL] ELSE m :
                       m \in {x \in messages : x.group_id # old.id}}
       ELSE UNCHANGED <<groups, group_members, messages>>
  /\ lastOp' = Op("delete_group", uid, GrantDeleteGroup(uid, old))
  /\ UNCHANGED <<evalVars, storageVars, ddlVars, settingsVars>>
  /\ UNCHANGED <<profiles, posts, follows>>

\* INSERT INTO group_members: primary key (group_id, user_id), both foreign keys
InsertMember(uid, new) ==
  /\ Cardinality(group_members) < MaxMembers
  /\ new.group_id \in {g.id : g \in groups}
  /\ new.user_id \in ProfileIds
  /\ ~ \E gm \in group_members : gm.group_id = new.group_id /\ gm.user_id = new.user_id
  /\ IF GrantInsertMember(uid, new)
       THEN group_members' = group_members \cup {new}
       ELSE UNCHANGED group_members
  /\ lastOp' = Op("insert_member", uid, GrantInsertMember(uid, new))
  /\ UNCHANGED <<evalVars, storageVars, ddlVars, settingsVars>>
  /\ UNCHANGED <<profiles, posts, follows, messages, groups>>

\* UPDATE group_members SET is_admin = a WHERE group_id = .. AND user_id = ..
UpdateMember(uid, old, a) ==
  /\ old \in group_members
  /\ LET new == [old EXCEPT !.is_admin = a]
     IN /\ IF GrantUpdateMember(uid, old, new)
             THEN group_members' = (group_members \ {old}) \cup {new}
             ELSE UNCHANGED group_members
        /\ lastOp' = Op("update_member", uid, GrantUpdateMember(uid, old, new))
  /\ UNCHANGED <<evalVars, storageVars, ddlVars, settingsVars>>
  /\ UNCHANGED <<profiles, posts, follows, messages, groups>>

\* DELETE FROM group_members WHERE group_id = .. AND user_id = ..
DeleteMember(uid, old) ==
  /\ old \in group_members
  /\ IF GrantDeleteMember(uid, old)
       THEN group_members' = group_members \ {old}
       ELSE UNCHANGED group_members
  /\ lastOp' = Op("delete_member", uid, GrantDeleteMember(uid, old))
  /\ UNCHANGED <<evalVars, storageVars, ddlVars, settingsVars>>
  /\ UNCHANGED <<profiles, posts, follows, messages, groups>>

----------------------------------------------------------------------------
(* Requests on messages.  No DELETE policy exists for messages, so no      *)
(* client delete is granted.                                               *)

MessageRow(id, s, r, g, rd, rep) ==
  [id |-> id, sender_id |-> s, recipient_id |-> r, group_id |-> g, read |-> rd,
   reply_to_id |-> rep]

\* the foreign keys and NOT NULL columns of a messages row
MessageRowValid(row, ids) ==
  /\ row.sender_id \in ProfileIds
  /\ row.recipient_id \in ProfileIds
  /\ row.group_id = NULL \/ row.group_id \in {g.id : g \in groups}
  /\ row.reply_to_id = NULL \/ row.reply_to_id \in ids

\* INSERT INTO messages
InsertMessage(uid, new) ==
  /\ new.id \notin {m.id : m \in messages}
  /\ MessageRowValid(new, {m.id : m \in messages} \cup {new.id})
  /\ IF GrantInsertMessage(uid, new)
       THEN messages' = messages \cup {new}
       ELSE UNCHANGED messages
  /\ lastOp' = Op("insert_message", uid, GrantInsertMessage(uid, new))
  /\ UNCHANGED <<evalVars, storageVars, ddlVars, settingsVars>>
  /\ UNCHANGED <<profiles, posts, follows, groups, group_members>>

\* UPDATE messages SET ... WHERE id = old.id
UpdateMessage(uid, old, new) ==
  /\ old \in messages
  /\ new.id = old.id
  /\ MessageRowValid(new, {m.id : m \in messages})
  /\ IF GrantUpdateMessage(uid, old, new)
       THEN messages' = (messages \ {old}) \cup {new}
       ELSE UNCHANGED messages
  /\ lastOp' = Op("update_message", uid, GrantUpdateMessage(uid, old, new))
  /\ UNCHANGED <<evalVars, storageVars, ddlVars, settingsVars>>
  /\ UNCHANGED <<profiles, posts, follows, groups, group_members>>

\* the rows an UPDATE of one column of old can ask for
ColumnUpdates(old) ==
  {[old EXCEPT !.read = b] : b \in BOOLEAN}
    \cup {[old EXCEPT !.sender_id = u] : u \in Users}
    \cup {[old EXCEPT !.recipient_id = u] : u \in Users}
    \cup {[old EXCEPT !.group_id = g] : g \in GroupIds \cup {NULL}}

----------------------------------------------------------------------------
(* Deleting a profile.  No policy lets a client delete a profiles row; the *)
(* row goes when its auth.users row is deleted (ON DELETE CASCADE), and    *)
(* the foreign keys that reference profiles(id) act on the other tables.   *)

PostRow(id, u) == [id |-> id, user_id |-> u]

FollowRow(a, b) == [follower_id |-> a, following_id |-> b]

\* posts.user_id REFERENCES profiles(id) ON DELETE CASCADE
PostsAfterDelete(p) == {x \in posts : x.user_id # p}

\* variant: only follows.follower_id cascades
FollowsOfOthers(p) == {x \in follows : x.follower_id # p}

\* follows.follower_id and follows.following_id REFERENCES profiles(id)
\* ON DELETE CASCADE
FollowsAfterDelete(p) == {x \in follows : x.follower_id # p /\ x.following_id # p}

\* messages.sender_id and messages.recipient_id REFERENCES profiles(id)
\* ON DELETE CASCADE; messages.reply_to_id REFERENCES messages(id)
\* ON DELETE SET NULL
MessagesAfterDelete(p) ==
  LET kept == {m \in messages : m.sender_id # p /\ m.recipient_id # p}
      gone == {m.id : m \in messages \ kept}
  IN {IF m.reply_to_id \in gone THEN [m EXCEPT !.reply_to_id = NULL] ELSE m : m \in kept}

\* group_members.user_id REFERENCES profiles(id) ON DELETE CASCADE
MembersAfterDelete(p) == {x \in group_members : x.user_id # p}

\* groups.creator_id REFERENCES profiles(id) ON DELETE SET NULL
GroupsAfterDelete(p) ==
  {IF g.creator_id = p THEN [g EXCEPT !.creator_id = NULL] ELSE g : g \in groups}

\* DELETE of the profiles row with id p
DeleteProfile(p) ==
  /\ p \in ProfileIds
  /\ profiles' = {x \in profiles : x.id # p}
  /\ posts' = PostsAfterDelete(p)
  /\ follows' = FollowsAfterDelete(p)
  /\ messages' = MessagesAfterDelete(p)
  /\ group_members' = MembersAfterDelete(p)
  /\ groups' = GroupsAfterDelete(p)
  /\ lastOp' = Op("delete_profile", p, TRUE)
  /\ UNCHANGED <<evalVars, storageVars, ddlVars, settingsVars>>

----------------------------------------------------------------------------
(* The policy set as the backend's evaluator sees it: every policy of the  *)
(* migration with its table, its command and the tables its predicate      *)
(* reads in a subquery.  A statement on a table applies the table's        *)
(* policies for its command, and an UPDATE or DELETE the SELECT policies   *)
(* too; a subquery on a table applies that table's SELECT policies.        *)

Policy(name, table, cmd, queries) ==
  [name |-> name, table |-> table, cmd |-> cmd, queries |-> queries]

PolicyTable ==
  { Policy("Public profiles are viewable by everyone", "profiles", "SELECT", {}),
    Policy("Users can update own profile", "profiles", "UPDATE", {}),
    Policy("Users can insert own profile", "profiles", "INSERT", {}),
    Policy("Posts are viewable by everyone", "posts", "SELECT", {}),
    Policy("Users can create own posts", "posts", "INSERT", {}),
    Policy("Users can delete own posts", "posts", "DELETE", {}),
    Policy("Follows are viewable by everyone", "follows", "SELECT", {}),
    Policy("Users can follow others", "follows", "INSERT", {}),
    Policy("Users can unfollow", "follows", "DELETE", {}),
    Policy("Users can view DMs", "messages", "SELECT", {}),
    Policy("Users can view group messages", "messages", "SELECT", {"group_members"}),
    Policy("Users can send DMs", "messages", "INSERT", {}),
    Policy("Users can send group messages", "messages", "INSERT", {"group_members"}),
    Policy("Users can mark DMs as read", "messages", "UPDATE", {}),
    Policy("Groups viewable by members", "groups", "SELECT", {"group_members"}),
    Policy("Creators can create groups", "groups", "INSERT", {}),
    Policy("Admins and creators can update groups", "groups", "UPDATE", {"group_members"}),
    Policy("Admins and creators can delete groups", "groups", "DELETE", {"group_members"}),
    Policy("Members viewable by self", "group_members", "SELECT", {}),
    Policy("Admins and creators can insert members", "group_members", "INSERT",
           {"groups", "group_members"}),
    Policy("Admins and creators can update member roles", "group_members", "UPDATE",
           {"groups", "group_members"}),
    Policy("Admins, creators, and member can delete members", "group_members", "DELETE",
           {"groups", "group_members"}),
    Policy("Anyone can view media", "storage.objects", "SELECT", {}),
    Policy("Users can upload", "storage.objects", "INSERT", {}),
    Policy("Users can delete own", "storage.objects", "DELETE", {"auth.users"}) }

Tables == {p.table : p \in PolicyTable}

Commands == {"SELECT", "INSERT", "UPDATE", "DELETE"}

\* the evaluator gives up beyond this many nested policies
MaxEvalDepth == 4

\* variant: the group_members SELECT policy joins group_members again, as
\* the dropped policy "Members viewable by members" did
QueriesWithMemberJoin(name) ==
  IF name = "Members viewable by self"
    THEN {"group_members"}
    ELSE (CHOOSE p \in PolicyTable : p.name = name).queries

\* the tables the predicate of policy name reads in a subquery
Queries(name) == (CHOOSE p \in PolicyTable : p.name = name).queries

SelectPoliciesOf(table) ==
  {p.name : p \in {q \in PolicyTable : q.table = table /\ q.cmd = "SELECT"}}

\* the policies a statement cmd on table applies to a row
PoliciesApplied(table, cmd) ==
  {p.name : p \in {q \in PolicyTable : q.table = table /\ q.cmd = cmd}}
    \cup (IF cmd \in {"UPDATE", "DELETE"} THEN SelectPoliciesOf(table) ELSE {})

\* the policies that evaluating policy name evaluates in turn
SubPolicies(name) == UNION {SelectPoliciesOf(t) : t \in Queries(name)}

Frame(name) == [policy |-> name, todo |-> SubPolicies(name)]

NoStmt == [table |-> NULL, cmd |-> NULL]

InitEval ==
  /\ evalStmt = NoStmt
  /\ evalTodo = {}
  /\ evalStack = <<>>

\* a statement arrives: its policies are to be evaluated for a row
EvalStatement(table, cmd) ==
  /\ evalStmt = NoStmt
  /\ evalStmt' = [table |-> table, cmd |-> cmd]
  /\ evalTodo' = PoliciesApplied(table, cmd)
  /\ evalStack' = <<>>
  /\ UNCHANGED <<dbVars, lastOp, storageVars, ddlVars, settingsVars>>

\* the evaluator starts on one of the statement's policies
EvalEnter ==
  /\ evalStmt # NoStmt
  /\ evalStack = <<>>
  /\ \E name \in evalTodo :
       /\ evalTodo' = evalTodo \ {name}
       /\ evalStack' = <<Frame(name)>>
  /\ UNCHANGED <<evalStmt, dbVars, lastOp, storageVars, ddlVars, settingsVars>>

\* the innermost policy runs a subquery: a SELECT policy of the queried
\* table is evaluated inside it
EvalCall ==
  /\ evalStack # <<>>
  /\ Len(evalStack) < MaxEvalDepth
  /\ LET n == Len(evalStack)
     IN \E name \in evalStack[n].todo :
          evalStack' =
            Append([evalStack EXCEPT ![n].todo = evalStack[n].todo \ {name}], Frame(name))
  /\ UNCHANGED <<evalStmt, evalTodo, dbVars, lastOp, storageVars, ddlVars, settingsVars>>

\* the innermost policy has evaluated all its subqueries and returns
EvalReturn ==
  /\ evalStack # <<>>
  /\ evalStack[Len(evalStack)].todo = {}
  /\ evalStack' = SubSeq(evalStack, 1, Len(evalStack) - 1)
  /\ UNCHANGED <<evalStmt, evalTodo, dbVars, lastOp, storageVars, ddlVars, settingsVars>>

\* every policy of the statement is evaluated
EvalDone ==
  /\ evalStmt # NoStmt
  /\ evalStack = <<>>
  /\ evalTodo = {}
  /\ evalStmt' = NoStmt
  /\ UNCHANGED <<evalTodo, evalStack, dbVars, lastOp, storageVars, ddlVars, settingsVars>>

NextEval ==
  \/ \E table \in Tables, cmd \in Commands : EvalStatement(table, cmd)
  \/ EvalEnter
  \/ EvalCall
  \/ EvalReturn
  \/ EvalDone

----------------------------------------------------------------------------

ProfileRow(id) ==
  [id |-> id, username |-> id, theme |-> "lt-classic", verification_request |-> ""]

NoOp == Op("none", NULL, FALSE)

----------------------------------------------------------------------------
(* The media bucket.  An object key is its sequence of path segments, the  *)
(* last one being the file name.                                           *)

\* id::text, the text form of a uuid
UuidText(u) ==
  CASE u = "u1" -> "00000000-0000-0000-0000-000000000001"
    [] u = "u2" -> "00000000-0000-0000-0000-000000000002"
    [] u = "u3" -> "00000000-0000-0000-0000-000000000003"

Segments == {UuidText("u1"), UuidText("u2"), "a.png"}

Keys == UNION {[1..n -> Segments] : n \in 1..MaxKeyLen}

Buckets == {"media", "private"}

ObjectRow(b, k, o) == [bucket_id |-> b, name |-> k, owner |-> o]

\* storage.foldername(name): the segments of the key before the file name
foldername(name) == SubSeq(name, 1, Len(name) - 1)

\* array subscript: null outside the array
ArrayAt(arr, i) == IF i \in 1..Len(arr) THEN arr[i] ELSE NULL

\* (SELECT id::text FROM auth.users WHERE id = auth.uid())
AuthUserIdText(uid) == IF uid \in Users THEN UuidText(uid) ELSE NULL

AnyoneCanViewMedia(uid, row) == row.bucket_id = "media"

UsersCanUpload(uid, row) == row.bucket_id = "media"

\* variant: the uploader may delete
UsersCanDeleteUploaded(uid, row) ==
  row.bucket_id = "media" /\ SqlEq(row.owner, uid)

UsersCanDeleteOwn(uid, row) ==
  row.bucket_id = "media" /\ SqlEq(ArrayAt(foldername(row.name), 1), AuthUserIdText(uid))

\* the subquery on auth.users fails when the caller's role may not read it
GrantDeleteObject(uid, row) ==
  /\ authUsersReadable
  /\ AnyoneCanViewMedia(uid, row)
  /\ UsersCanDeleteOwn(uid, row)

\* upload of a new object by uid
Upload(uid, b, k) ==
  /\ Cardinality(objects) < MaxObjects
  /\ \A o \in objects : ~(o.bucket_id = b /\ o.name = k)
  /\ IF UsersCanUpload(uid, ObjectRow(b, k, uid))
       THEN objects' = objects \cup {ObjectRow(b, k, uid)}
       ELSE UNCHANGED objects
  /\ lastOp' = Op("upload", uid, UsersCanUpload(uid, ObjectRow(b, k, uid)))
  /\ UNCHANGED <<dbVars, evalVars, authUsersReadable, ddlVars, settingsVars>>

\* delete of object row by uid
DeleteObject(uid, row) ==
  /\ row \in objects
  /\ IF GrantDeleteObject(uid, row)
       THEN objects' = objects \ {row}
       ELSE UNCHANGED objects
  /\ lastOp' = Op("delete_object", uid, GrantDeleteObject(uid, row))
  /\ UNCHANGED <<dbVars, evalVars, authUsersReadable, ddlVars, settingsVars>>

InitStorage ==
  /\ objects = {}
  /\ authUsersReadable = TRUE

----------------------------------------------------------------------------
(* The Settings component: the username section.  A username is a sequence *)
(* of characters.                                                          *)

Alphabet == {"a", "A", " "}

Names == UNION {[1..n -> Alphabet] : n \in 0..MaxNameLen}

LowerChar(c) == IF c = "A" THEN "a" ELSE c

\* String.prototype.toLowerCase
toLowerCase(s) == IF s = <<>> THEN <<>> ELSE [i \in 1..Len(s) |-> LowerChar(s[i])]

RECURSIVE trimStart(_)
trimStart(s) == IF s # <<>> /\ Head(s) = " " THEN trimStart(Tail(s)) ELSE s

RECURSIVE trimEnd(_)
trimEnd(s) ==
  IF s # <<>> /\ s[Len(s)] = " " THEN trimEnd(SubSeq(s, 1, Len(s) - 1)) ELSE s

\* String.prototype.trim
trim(s) == trimEnd(trimStart(s))

\* the signed-in user
user == [id |-> "u1"]

NoProfile == [ProfileRow(NULL) EXCEPT !.username = <<>>]

NoMessage == [type |-> "none", text |-> ""]

Taken == [type |-> "error", text |-> "Username already taken."]

Updated == [type |-> "success", text |-> "Username updated!"]

Failed == [type |-> "error", text |-> "Failed to update username."]

NoClosure == [newUsername |-> <<>>, profile |-> NoProfile]

\* the usernames this component writes: lowercased, not blank
WrittenNames == {toLowerCase(n) : n \in {m \in Names : trim(m) # <<>>}}

\* variant: the pre-check compares the name as entered
ExistingAsEntered(name) == {p \in profiles : p.username = name}

\* from('profiles').select('id').eq('username', newUsername.toLowerCase())
Existing(name) == {p \in profiles : p.username = toLowerCase(name)}

\* variant: the column takes any value
UniqueNotEnforced(id, name) == FALSE

\* username text UNIQUE: another row has the name
UniqueViolated(id, name) == \E p \in profiles : p.id # id /\ p.username = name

\* variant: the cache takes the name as entered
RenamedAsEntered(p, name) == [p EXCEPT !.username = name]

\* { ...profile, username: newUsername.toLowerCase() }
Renamed(p, name) == [p EXCEPT !.username = toLowerCase(name)]

NoThemeRun == [pc |-> "idle", newTheme |-> "", profile |-> NoProfile]

NoVerifyRun == [pc |-> "idle", reason |-> <<>>, data |-> NoProfile]

\* the latest run of handleEmailChange / handlePasswordChange: the handler,
\* the input it captured and, once it has returned, the error it was given
NoAccountRun == [pc |-> "idle", handler |-> "", value |-> <<>>, error |-> NULL]

\* the rest of the page is untouched and no other page is open
InitPageClosed ==
  /\ themeRun = NoThemeRun
  /\ reason = <<>>
  /\ showApply = FALSE
  /\ verifyRun = NoVerifyRun
  /\ newEmail = <<>>
  /\ newPassword = <<>>
  /\ confirmPassword = <<>>
  /\ accountRun = NoAccountRun
  /\ authUser = [email_change |-> <<>>, password |-> <<>>]
  /\ other = [pc |-> "idle", name |-> <<>>, result |-> "none", cached |-> <<>>]

\* onChange of the username input, rendered while newUsername is not ''
setNewUsername(n) ==
  /\ newUsername # <<>>
  /\ newUsername' = n
  /\ lastOp' = Op("input", user.id, TRUE)
  /\ UNCHANGED <<loading, message, profile, pc, closure, timers, sent>>
  /\ UNCHANGED <<dbVars, evalVars, storageVars, ddlVars, pageVars>>

\* the Edit button
EditUsername ==
  /\ newUsername' = <<>>
  /\ lastOp' = Op("edit", user.id, TRUE)
  /\ UNCHANGED <<loading, message, profile, pc, closure, timers, sent>>
  /\ UNCHANGED <<dbVars, evalVars, storageVars, ddlVars, pageVars>>

\* click on Update Username (rendered while newUsername is not '', disabled
\* while loading): the handler up to its first await
handleUsernameChange ==
  /\ newUsername # <<>>
  /\ ~loading
  /\ pc = "idle"
  /\ IF \/ user.id = NULL
        \/ profile = NoProfile
        \/ newUsername = profile.username
        \/ trim(newUsername) = <<>>
       THEN /\ lastOp' = Op("username_return", user.id, FALSE)
            /\ sent' = <<>>
            /\ UNCHANGED <<loading, pc, closure>>
       ELSE /\ loading' = TRUE
            /\ pc' = "precheck"
            /\ sent' = <<"select profiles.id">>
            /\ closure' = [newUsername |-> newUsername, profile |-> profile]
            /\ lastOp' = Op("username_call", user.id, TRUE)
  /\ UNCHANGED <<newUsername, message, profile, timers>>
  /\ UNCHANGED <<dbVars, evalVars, storageVars, ddlVars, pageVars>>

\* the pre-check query returns; answered tells whether the request got
\* through (data is null when it did not)
handleUsernameChangeChecked(answered) ==
  /\ pc = "precheck"
  /\ LET existing == IF answered THEN Existing(closure.newUsername) ELSE {}
     IN IF existing # {}
          THEN /\ message' = Taken
               /\ loading' = FALSE
               /\ pc' = "idle"
               /\ closure' = NoClosure
               /\ UNCHANGED sent
          ELSE /\ pc' = "update"
               /\ sent' = Append(sent, "update profiles.username")
               /\ UNCHANGED <<message, loading, closure>>
  /\ lastOp' = Op("username_precheck", user.id, answered)
  /\ UNCHANGED <<newUsername, profile, timers>>
  /\ UNCHANGED <<dbVars, evalVars, storageVars, ddlVars, pageVars>>

\* the update returns; an error is a request that did not get through or a
\* violation of UNIQUE (username)
handleUsernameChangeUpdated(answered) ==
  /\ pc = "update"
  /\ timers < MaxTimers
  /\ LET name == toLowerCase(closure.newUsername)
         error == \/ ~answered
                  \/ UniqueViolated(user.id, name)
     IN /\ profiles' = IF error
                         THEN profiles
                         ELSE {IF p.id = user.id THEN [p EXCEPT !.username = name] ELSE p :
                                 p \in profiles}
        /\ loading' = FALSE
        /\ IF ~error
             THEN /\ profile' = Renamed(closure.profile, closure.newUsername)
                  /\ message' = Updated
                  /\ newUsername' = <<>>
             ELSE /\ message' = Failed
                  /\ UNCHANGED <<profile, newUsername>>
        /\ lastOp' = Op("username_update", user.id, ~error)
  /\ timers' = timers + 1
  /\ pc' = "idle"
  /\ closure' = NoClosure
  /\ UNCHANGED <<posts, follows, messages, groups, group_members>>
  /\ UNCHANGED <<evalVars, storageVars, ddlVars, sent, pageVars>>

\* setTimeout(() => setMessage(null), 3000) fires
Timeout ==
  /\ timers > 0
  /\ message' = NoMessage
  /\ timers' = timers - 1
  /\ lastOp' = Op("timeout", user.id, TRUE)
  /\ UNCHANGED <<newUsername, loading, profile, pc, closure, sent>>
  /\ UNCHANGED <<dbVars, evalVars, storageVars, ddlVars, pageVars>>

\* another client renames its own profile
RenameOther(q, n) ==
  /\ q \in ProfileIds \ {user.id}
  /\ \A p \in profiles : p.username # n
  /\ profiles' = {IF p.id = q THEN [p EXCEPT !.username = n] ELSE p : p \in profiles}
  /\ lastOp' = Op("update_profile", q, TRUE)
  /\ UNCHANGED <<posts, follows, messages, groups, group_members>>
  /\ UNCHANGED <<evalVars, storageVars, ddlVars, settingsVars>>

----------------------------------------------------------------------------
(* The Settings component on the page of a second client, signed in as u2: *)
(* its handleUsernameChange, request by request.                           *)

\* click on Update Username with name entered: the handler up to its first await
OtherUsernameChange(name) ==
  /\ other.pc = "idle"
  /\ name # <<>>
  /\ name # other.cached
  /\ trim(name) # <<>>
  /\ other' = [other EXCEPT !.pc = "precheck", !.name = name, !.result = "none"]
  /\ lastOp' = Op("other_call", "u2", TRUE)
  /\ UNCHANGED <<newUsername, loading, message, profile, pc, closure, timers, sent>>
  /\ UNCHANGED <<themeRun, reason, showApply, verifyRun, newEmail, newPassword,
                 confirmPassword, authUser, accountRun>>
  /\ UNCHANGED <<dbVars, evalVars, storageVars, ddlVars>>

\* its pre-check query returns
OtherChecked ==
  /\ other.pc = "precheck"
  /\ other' = IF Existing(other.name) # {}
                THEN [other EXCEPT !.pc = "idle", !.result = "taken"]
                ELSE [other EXCEPT !.pc = "update"]
  /\ lastOp' = Op("other_precheck", "u2", TRUE)
  /\ UNCHANGED <<newUsername, loading, message, profile, pc, closure, timers, sent>>
  /\ UNCHANGED <<themeRun, reason, showApply, verifyRun, newEmail, newPassword,
                 confirmPassword, authUser, accountRun>>
  /\ UNCHANGED <<dbVars, evalVars, storageVars, ddlVars>>

\* its update returns
OtherUpdated ==
  /\ other.pc = "update"
  /\ LET name == toLowerCase(other.name)
         error == UniqueViolated("u2", name)
     IN /\ profiles' = IF error
                         THEN profiles
                         ELSE {IF p.id = "u2" THEN [p EXCEPT !.username = name]
                                                      ELSE p : p \in profiles}
        /\ other' = IF error
                      THEN [other EXCEPT !.pc = "idle", !.result = "failed"]
                      ELSE [other EXCEPT !.pc = "idle", !.result = "updated",
                                         !.cached = name]
        /\ lastOp' = Op("other_update", "u2", ~error)
  /\ UNCHANGED <<posts, follows, messages, groups, group_members>>
  /\ UNCHANGED <<newUsername, loading, message, profile, pc, closure, timers, sent>>
  /\ UNCHANGED <<themeRun, reason, showApply, verifyRun, newEmail, newPassword,
                 confirmPassword, authUser, accountRun>>
  /\ UNCHANGED <<evalVars, storageVars, ddlVars>>

----------------------------------------------------------------------------
(* The Settings component: the appearance and verification sections.  The  *)
(* signed-in user is not verified.                                         *)

ThemeNames == {"lt-classic", "lt-dark"}

\* the Themes component calls onChange(newTheme); it is given loading and a
\* theme is not picked while loading: the handler up to its await
handleThemeChange(newTheme) ==
  /\ ~loading
  /\ themeRun = NoThemeRun
  /\ IF user.id = NULL \/ profile = NoProfile
       THEN /\ lastOp' = Op("theme_return", user.id, FALSE)
            /\ UNCHANGED <<loading, themeRun>>
            /\ sent' = <<>>
       ELSE /\ loading' = TRUE
            /\ themeRun' = [pc |-> "update", newTheme |-> newTheme, profile |-> profile]
            /\ sent' = <<"update profiles.theme">>
            /\ lastOp' = Op("theme_call", user.id, TRUE)
  /\ UNCHANGED <<newUsername, message, profile, pc, closure, timers>>
  /\ UNCHANGED <<reason, showApply, verifyRun, newEmail, newPassword, confirmPassword, authUser,
                 accountRun, other>>
  /\ UNCHANGED <<dbVars, evalVars, storageVars, ddlVars>>

\* the theme update returns
handleThemeChangeUpdated(answered) ==
  /\ themeRun.pc = "update"
  /\ timers < MaxTimers
  /\ profiles' = IF answered
                   THEN {IF p.id = user.id THEN [p EXCEPT !.theme = themeRun.newTheme] ELSE p :
                           p \in profiles}
                   ELSE profiles
  /\ loading' = FALSE
  /\ IF answered
       THEN /\ profile' = [themeRun.profile EXCEPT !.theme = themeRun.newTheme]
            /\ message' = [type |-> "success", text |-> "Theme updated!"]
       ELSE /\ message' = [type |-> "error", text |-> "Failed to update theme."]
            /\ UNCHANGED profile
  /\ timers' = timers + 1
  /\ themeRun' = NoThemeRun
  /\ lastOp' = Op("theme_update", user.id, answered)
  /\ UNCHANGED <<newUsername, pc, closure, sent>>
  /\ UNCHANGED <<reason, showApply, verifyRun, newEmail, newPassword, confirmPassword, authUser,
                 accountRun, other>>
  /\ UNCHANGED <<posts, follows, messages, groups, group_members>>
  /\ UNCHANGED <<evalVars, storageVars, ddlVars>>

\* the Apply for Verification button
ShowApply ==
  /\ profile.verification_request = <<>>
  /\ showApply' = TRUE
  /\ lastOp' = Op("input", user.id, TRUE)
  /\ UNCHANGED <<newUsername, loading, message, profile, pc, closure, timers, sent>>
  /\ UNCHANGED <<themeRun, reason, verifyRun, newEmail, newPassword, confirmPassword, authUser,
                 accountRun, other>>
  /\ UNCHANGED <<dbVars, evalVars, storageVars, ddlVars>>

\* onChange of the reason textarea
setReason(r) ==
  /\ showApply
  /\ profile.verification_request = <<>>
  /\ reason' = r
  /\ lastOp' = Op("input", user.id, TRUE)
  /\ UNCHANGED <<newUsername, loading, message, profile, pc, closure, timers, sent>>
  /\ UNCHANGED <<themeRun, showApply, verifyRun, newEmail, newPassword, confirmPassword, authUser,
                 accountRun, other>>
  /\ UNCHANGED <<dbVars, evalVars, storageVars, ddlVars>>

\* the Cancel button
CancelApply ==
  /\ showApply
  /\ profile.verification_request = <<>>
  /\ showApply' = FALSE
  /\ reason' = <<>>
  /\ lastOp' = Op("input", user.id, TRUE)
  /\ UNCHANGED <<newUsername, loading, message, profile, pc, closure, timers, sent>>
  /\ UNCHANGED <<themeRun, verifyRun, newEmail, newPassword, confirmPassword, authUser,
                 accountRun, other>>
  /\ UNCHANGED <<dbVars, evalVars, storageVars, ddlVars>>

\* click on Submit (disabled while loading or while the reason is blank):
\* the handler up to its first await.  One run is followed at a time.
handleVerificationApply ==
  /\ showApply
  /\ profile.verification_request = <<>>
  /\ ~loading
  /\ trim(reason) # <<>>
  /\ verifyRun = NoVerifyRun
  /\ IF user.id = NULL \/ trim(reason) = <<>>
       THEN /\ lastOp' = Op("verify_return", user.id, FALSE)
            /\ UNCHANGED <<loading, verifyRun>>
            /\ sent' = <<>>
       ELSE /\ loading' = TRUE
            /\ verifyRun' = [pc |-> "update", reason |-> reason, data |-> NoProfile]
            /\ sent' = <<"update profiles.verification_request">>
            /\ lastOp' = Op("verify_call", user.id, TRUE)
  /\ UNCHANGED <<newUsername, message, profile, pc, closure, timers>>
  /\ UNCHANGED <<themeRun, reason, showApply, newEmail, newPassword, confirmPassword, authUser,
                 accountRun, other>>
  /\ UNCHANGED <<dbVars, evalVars, storageVars, ddlVars>>

\* the verification_request update returns; on success the handler sends
\* the re-read of the row, with loading already false
handleVerificationApplyUpdated(answered) ==
  /\ verifyRun.pc = "update"
  /\ answered \/ timers < MaxTimers
  /\ profiles' = IF answered
                   THEN {IF p.id = user.id
                           THEN [p EXCEPT !.verification_request = verifyRun.reason]
                           ELSE p : p \in profiles}
                   ELSE profiles
  /\ loading' = FALSE
  /\ IF answered
       THEN /\ message' = [type |-> "success",
                         text |-> "Verification request submitted!"]
            /\ showApply' = FALSE
            /\ reason' = <<>>
            /\ verifyRun' = [verifyRun EXCEPT !.pc = "reread"]
            /\ sent' = Append(sent, "select profiles.*")
            /\ UNCHANGED timers
       ELSE /\ message' = [type |-> "error", text |-> "Failed to submit request."]
            /\ timers' = timers + 1
            /\ verifyRun' = NoVerifyRun
            /\ UNCHANGED <<showApply, reason, sent>>
  /\ lastOp' = Op("verify_update", user.id, answered)
  /\ UNCHANGED <<newUsername, profile, pc, closure>>
  /\ UNCHANGED <<themeRun, newEmail, newPassword, confirmPassword, authUser, accountRun, other>>
  /\ UNCHANGED <<posts, follows, messages, groups, group_members>>
  /\ UNCHANGED <<evalVars, storageVars, ddlVars>>

\* the backend runs select('*').eq('id', user.id).single(): data is the row,
\* or null when the request does not get through
VerificationReread(answered) ==
  /\ verifyRun.pc = "reread"
  /\ LET OwnRows == {p \in profiles : p.id = user.id}
     IN verifyRun' = [verifyRun EXCEPT
                        !.pc = "deliver",
                        !.data = IF answered /\ Cardinality(OwnRows) = 1
                                   THEN CHOOSE p \in OwnRows : TRUE
                                   ELSE NoProfile]
  /\ lastOp' = Op("verify_reread", user.id, answered)
  /\ UNCHANGED <<newUsername, loading, message, profile, pc, closure, timers, sent>>
  /\ UNCHANGED <<themeRun, reason, showApply, newEmail, newPassword, confirmPassword, authUser,
                 accountRun, other>>
  /\ UNCHANGED <<dbVars, evalVars, storageVars, ddlVars>>

\* variant: the re-read is not applied to the cache
CacheKept(data, cached) == cached

\* if (data) updateProfile(data)
CacheAfterReread(data, cached) == IF data # NoProfile THEN data ELSE cached

\* the re-read returns to the handler: if (data) updateProfile(data), then
\* the timer
handleVerificationApplyReread ==
  /\ verifyRun.pc = "deliver"
  /\ timers < MaxTimers
  /\ profile' = CacheAfterReread(verifyRun.data, profile)
  /\ timers' = timers + 1
  /\ verifyRun' = NoVerifyRun
  /\ lastOp' = Op("verify_done", user.id, verifyRun.data # NoProfile)
  /\ UNCHANGED <<newUsername, loading, message, pc, closure, sent>>
  /\ UNCHANGED <<themeRun, reason, showApply, newEmail, newPassword, confirmPassword, authUser,
                 accountRun, other>>
  /\ UNCHANGED <<dbVars, evalVars, storageVars, ddlVars>>

----------------------------------------------------------------------------
(* The Settings component: the email and password inputs.                  *)

Emails == {<<>>, <<" ">>, <<"a">>}

Passwords ==
  {<<>>, [i \in 1..(MinPasswordLen - 1) |-> "x"], [i \in 1..MinPasswordLen |-> "x"],
   [i \in 1..MinPasswordLen |-> "y"]}

\* variant: the generic text whatever the error says
GenericText(text, fallback) == fallback

\* error.message || fallback
MessageOr(text, fallback) == IF text = "" THEN fallback ELSE text

\* onChange of the email input, rendered while newEmail is not ''
setNewEmail(e) ==
  /\ newEmail # <<>>
  /\ newEmail' = e
  /\ lastOp' = Op("input", user.id, TRUE)
  /\ UNCHANGED <<loading, message, timers, sent, newPassword, confirmPassword, authUser,
                 accountRun>>
  /\ UNCHANGED <<newUsername, profile, pc, closure, themeRun, reason, showApply, verifyRun, other>>
  /\ UNCHANGED <<dbVars, evalVars, storageVars, ddlVars>>

\* the Edit button of the email
EditEmail ==
  /\ newEmail' = <<>>
  /\ lastOp' = Op("input", user.id, TRUE)
  /\ UNCHANGED <<loading, message, timers, sent, newPassword, confirmPassword, authUser,
                 accountRun>>
  /\ UNCHANGED <<newUsername, profile, pc, closure, themeRun, reason, showApply, verifyRun, other>>
  /\ UNCHANGED <<dbVars, evalVars, storageVars, ddlVars>>

setNewPassword(w) ==
  /\ newPassword' = w
  /\ lastOp' = Op("input", user.id, TRUE)
  /\ UNCHANGED <<loading, message, timers, sent, newEmail, confirmPassword, authUser,
                 accountRun>>
  /\ UNCHANGED <<newUsername, profile, pc, closure, themeRun, reason, showApply, verifyRun, other>>
  /\ UNCHANGED <<dbVars, evalVars, storageVars, ddlVars>>

setConfirmPassword(w) ==
  /\ confirmPassword' = w
  /\ lastOp' = Op("input", user.id, TRUE)
  /\ UNCHANGED <<loading, message, timers, sent, newEmail, newPassword, authUser, accountRun>>
  /\ UNCHANGED <<newUsername, profile, pc, closure, themeRun, reason, showApply, verifyRun, other>>
  /\ UNCHANGED <<dbVars, evalVars, storageVars, ddlVars>>

\* click on Update Email (rendered while newEmail is not '', disabled while
\* loading): the handler up to its await
handleEmailChange ==
  /\ newEmail # <<>>
  /\ ~loading
  /\ accountRun.pc = "idle"
  /\ IF user.id = NULL \/ trim(newEmail) = <<>>
       THEN /\ lastOp' = Op("email_return", user.id, FALSE)
            /\ sent' = <<>>
            /\ UNCHANGED <<loading, accountRun>>
       ELSE /\ loading' = TRUE
            /\ accountRun' = [pc |-> "await", handler |-> "email", value |-> newEmail,
                              error |-> NULL]
            /\ sent' = <<"auth.updateUser">>
            /\ lastOp' = Op("email_call", user.id, TRUE)
  /\ UNCHANGED <<message, timers, newEmail, newPassword, confirmPassword, authUser>>
  /\ UNCHANGED <<newUsername, profile, pc, closure, themeRun, reason, showApply, verifyRun, other>>
  /\ UNCHANGED <<dbVars, evalVars, storageVars, ddlVars>>

\* auth.updateUser({ email }) returns, with error err or with none
handleEmailChangeUpdated(err) ==
  /\ accountRun.pc = "await"
  /\ accountRun.handler = "email"
  /\ timers < MaxTimers
  /\ loading' = FALSE
  /\ IF err = NULL
       THEN /\ authUser' = [authUser EXCEPT !.email_change = accountRun.value]
            /\ message' = [type |-> "success",
                         text |-> "Email updated! Check your inbox for confirmation."]
            /\ newEmail' = <<>>
       ELSE /\ message' = [type |-> "error",
                            text |-> MessageOr(err, "Failed to update email.")]
            /\ UNCHANGED <<authUser, newEmail>>
  /\ timers' = timers + 1
  /\ accountRun' = [accountRun EXCEPT !.pc = "idle", !.error = err]
  /\ lastOp' = Op("email_update", user.id, err = NULL)
  /\ UNCHANGED <<sent, newPassword, confirmPassword>>
  /\ UNCHANGED <<newUsername, profile, pc, closure, themeRun, reason, showApply, verifyRun, other>>
  /\ UNCHANGED <<dbVars, evalVars, storageVars, ddlVars>>

\* click on Change Password (disabled while loading, while the two inputs
\* differ and while the password is short): the handler up to its await
handlePasswordChange ==
  /\ ~loading
  /\ newPassword = confirmPassword
  /\ Len(newPassword) >= MinPasswordLen
  /\ accountRun.pc = "idle"
  /\ IF \/ user.id = NULL
        \/ newPassword # confirmPassword
        \/ Len(newPassword) < MinPasswordLen
       THEN /\ lastOp' = Op("password_return", user.id, FALSE)
            /\ sent' = <<>>
            /\ UNCHANGED <<loading, accountRun>>
       ELSE /\ loading' = TRUE
            /\ accountRun' = [pc |-> "await", handler |-> "password", value |-> newPassword,
                              error |-> NULL]
            /\ sent' = <<"auth.updateUser">>
            /\ lastOp' = Op("password_call", user.id, TRUE)
  /\ UNCHANGED <<message, timers, newEmail, newPassword, confirmPassword, authUser>>
  /\ UNCHANGED <<newUsername, profile, pc, closure, themeRun, reason, showApply, verifyRun, other>>
  /\ UNCHANGED <<dbVars, evalVars, storageVars, ddlVars>>

\* auth.updateUser({ password }) returns, with error err or with none
handlePasswordChangeUpdated(err) ==
  /\ accountRun.pc = "await"
  /\ accountRun.handler = "password"
  /\ timers < MaxTimers
  /\ loading' = FALSE
  /\ IF err = NULL
       THEN /\ authUser' = [authUser EXCEPT !.password = accountRun.value]
            /\ message' = [type |-> "success", text |-> "Password updated!"]
            /\ newPassword' = <<>>
            /\ confirmPassword' = <<>>
       ELSE /\ message' = [type |-> "error",
                            text |-> MessageOr(err, "Failed to update password.")]
            /\ UNCHANGED <<authUser, newPassword, confirmPassword>>
  /\ timers' = timers + 1
  /\ accountRun' = [accountRun EXCEPT !.pc = "idle", !.error = err]
  /\ lastOp' = Op("password_update", user.id, err = NULL)
  /\ UNCHANGED <<sent, newEmail>>
  /\ UNCHANGED <<newUsername, profile, pc, closure, themeRun, reason, showApply, verifyRun, other>>
  /\ UNCHANGED <<dbVars, evalVars, storageVars, ddlVars>>

----------------------------------------------------------------------------
(* Policies for groups and for group_members: the statements themselves.   *)

\* DROP POLICY IF EXISTS ... ; CREATE POLICY ... ; in the order of the file
PolicyScript ==
  LET Statement(line, op, name, table) ==
        [line |-> line, op |-> op, name |-> name, table |-> table]
  IN
  << Statement(100, "drop", "Groups viewable by members", "groups"),
     Statement(101, "create", "Groups viewable by members", "groups"),
     Statement(110, "drop", "Creators can create groups", "groups"),
     Statement(111, "create", "Creators can create groups", "groups"),
     Statement(112, "drop", "Admins and creators can update groups", "groups"),
     Statement(113, "create", "Admins and creators can update groups", "groups"),
     Statement(114, "drop", "Admins and creators can delete groups", "groups"),
     Statement(115, "create", "Admins and creators can delete groups", "groups"),
     Statement(118, "drop", "Members viewable by members", "group_members"),
     Statement(119, "create", "Members viewable by self", "group_members"),
     Statement(122, "drop", "Admins and creators can insert members", "group_members"),
     Statement(123, "create", "Admins and creators can insert members", "group_members"),
     Statement(124, "drop", "Admins and creators can update member roles", "group_members"),
     Statement(125, "create", "Admins and creators can update member roles",
               "group_members"),
     Statement(126, "drop", "Admins, creators, and member can delete members",
               "group_members"),
     Statement(127, "create", "Admins, creators, and member can delete members",
               "group_members") >>

PolicyOf(st) == [name |-> st.name, table |-> st.table]

\* no statement of the file has run
InitCatalog ==
  /\ pg_policies = {}
  /\ pg_tables = {}
  /\ ddl = [pass |-> 1, pos |-> 1, mode |-> "autocommit", begin |-> {}, failed |-> {},
            applied |-> {}, appliedClean |-> FALSE]

\* DROP POLICY IF EXISTS name ON table
DropPolicyIfExists ==
  /\ ddl.pos \in DOMAIN PolicyScript
  /\ PolicyScript[ddl.pos].op = "drop"
  /\ pg_policies' = pg_policies \ {PolicyOf(PolicyScript[ddl.pos])}
  /\ ddl' = [ddl EXCEPT !.pos = @ + 1]
  /\ UNCHANGED pg_tables
  /\ UNCHANGED <<dbVars, lastOp, evalVars, storageVars, settingsVars>>

\* CREATE POLICY name ON table: an error when the table has a policy of
\* that name; an error ends a transaction and undoes it
CreatePolicy ==
  /\ ddl.pos \in DOMAIN PolicyScript
  /\ PolicyScript[ddl.pos].op = "create"
  /\ IF PolicyOf(PolicyScript[ddl.pos]) \in pg_policies
       THEN /\ pg_policies' = IF ddl.mode = "transaction" THEN ddl.begin ELSE pg_policies
            /\ ddl' = [ddl EXCEPT
                         !.failed = @ \cup {PolicyScript[ddl.pos].line},
                         !.pos = IF ddl.mode = "transaction" THEN Len(PolicyScript) + 1
                                                             ELSE @ + 1]
       ELSE /\ pg_policies' = pg_policies \cup {PolicyOf(PolicyScript[ddl.pos])}
            /\ ddl' = [ddl EXCEPT !.pos = @ + 1]
  /\ UNCHANGED pg_tables
  /\ UNCHANGED <<dbVars, lastOp, evalVars, storageVars, settingsVars>>

\* the file is applied again to the database it was applied to
Reapply ==
  /\ ddl.pass = 1
  /\ ddl.pos > Len(PolicyScript)
  /\ ddl' = [ddl EXCEPT !.pass = 2, !.pos = 1, !.begin = pg_policies, !.failed = {},
                        !.applied = pg_policies, !.appliedClean = (ddl.failed = {})]
  /\ UNCHANGED <<pg_policies, pg_tables>>
  /\ UNCHANGED <<dbVars, lastOp, evalVars, storageVars, settingsVars>>

----------------------------------------------------------------------------
(* The CREATE TABLE statements, in the order of the file.                  *)

\* CREATE TABLE IF NOT EXISTS table (...), with the tables its REFERENCES
\* clauses name
TableScript ==
  << [line |-> 4, table |-> "profiles", references |-> {"auth.users"}],
     [line |-> 19, table |-> "posts", references |-> {"profiles"}],
     [line |-> 29, table |-> "follows", references |-> {"profiles"}],
     [line |-> 37, table |-> "messages", references |-> {"profiles", "messages", "groups"}],
     [line |-> 51, table |-> "groups", references |-> {"profiles"}],
     [line |-> 61, table |-> "group_members", references |-> {"groups", "profiles"}] >>

\* CREATE TABLE IF NOT EXISTS: nothing to do when the table exists; an error
\* when a REFERENCES clause names a table that does not exist and is not the
\* table being created
CreateTable ==
  /\ ddl.pos \in DOMAIN TableScript
  /\ LET st == TableScript[ddl.pos]
     IN IF st.table \in pg_tables
          THEN /\ UNCHANGED pg_tables
               /\ ddl' = [ddl EXCEPT !.pos = @ + 1]
          ELSE IF st.references \ {st.table} \subseteq pg_tables
                 THEN /\ pg_tables' = pg_tables \cup {st.table}
                      /\ ddl' = [ddl EXCEPT !.pos = @ + 1]
                 ELSE /\ UNCHANGED pg_tables
                      /\ ddl' = [ddl EXCEPT !.pos = @ + 1, !.failed = @ \cup {st.line}]
  /\ UNCHANGED pg_policies
  /\ UNCHANGED <<dbVars, lastOp, evalVars, storageVars, settingsVars>>

\* the Settings component is not mounted
InitSettingsClosed ==
  /\ newUsername = <<>>
  /\ loading = FALSE
  /\ message = NoMessage
  /\ profile = NoProfile
  /\ pc = "idle"
  /\ closure = NoClosure
  /\ timers = 0
  /\ sent = <<>>
  /\ InitPageClosed

Init ==
  /\ profiles = {ProfileRow(u) : u \in Users}
  /\ posts = {}
  /\ follows = {}
  /\ messages = {}
  /\ groups = {}
  /\ group_members = {}
  /\ lastOp = NoOp
  /\ InitEval
  /\ InitStorage
  /\ InitCatalog
  /\ InitSettingsClosed

Next ==
  \/ \E uid \in Users, id \in GroupIds, c \in Users : InsertGroup(uid, GroupRow(id, c))
  \/ \E uid \in Users, old \in groups, c \in Users : UpdateGroup(uid, old, GroupRow(old.id, c))
  \/ \E uid \in Users, old \in groups : DeleteGroup(uid, old)
  \/ \E uid \in Users, g \in GroupIds, u \in Users, a \in BOOLEAN :
       InsertMember(uid, MemberRow(g, u, a))
  \/ \E uid \in Users, old \in group_members, a \in BOOLEAN : UpdateMember(uid, old, a)
  \/ \E uid \in Users, old \in group_members : DeleteMember(uid, old)

Spec == Init /\ [][Next]_vars

\* the evaluator runs a statement's policies to completion
SpecEval ==
  /\ Init
  /\ [][NextEval]_vars
  /\ WF_vars(EvalEnter \/ EvalCall \/ EvalReturn \/ EvalDone)

----------------------------------------------------------------------------
(* Messaging: two groups exist, their creators manage the membership, and *)
(* clients send and update messages.                                       *)

InitMessages ==
  /\ profiles = {ProfileRow(u) : u \in Users}
  /\ posts = {}
  /\ follows = {}
  /\ messages = {}
  /\ groups = {GroupRow("g1", "u1"), GroupRow("g2", "u2")}
  /\ group_members = {}
  /\ lastOp = NoOp
  /\ InitEval
  /\ InitStorage
  /\ InitCatalog
  /\ InitSettingsClosed

NextMessages ==
  \/ \E uid \in Users, s \in Users, r \in Users, g \in GroupIds \cup {NULL} :
       InsertMessage(uid, MessageRow("m1", s, r, g, FALSE, NULL))
  \/ \E uid \in Users, old \in messages : \E new \in ColumnUpdates(old) :
       UpdateMessage(uid, old, new)
  \/ \E uid \in Users, g \in GroupIds, u \in Users : InsertMember(uid, MemberRow(g, u, FALSE))
  \/ \E uid \in Users, old \in group_members : DeleteMember(uid, old)

SpecMessages == InitMessages /\ [][NextMessages]_vars

----------------------------------------------------------------------------
(* Deleting profiles from a database that holds one group and up to        *)
(* MaxRows rows of posts, follows, direct messages and group members.      *)

RECURSIVE SubsetsUpTo(_, _)
SubsetsUpTo(S, k) ==
  IF k = 0
    THEN {{}}
    ELSE LET smaller == SubsetsUpTo(S, k - 1)
         IN smaller \cup {s \cup {x} : s \in smaller, x \in S}

Tagged(table, rows) == {[table |-> table, row |-> r] : r \in rows}

RowsOf(table, db) == {x.row : x \in {y \in db : y.table = table}}

\* the rows clients can have written: own posts, follows, direct messages
\* (a reply names another message), and members of group g1
CandidateRows ==
  Tagged("posts", {PostRow(id, u) : id \in PostIds, u \in Users})
    \cup Tagged("follows", {FollowRow(a, b) : a \in Users, b \in Users})
    \cup Tagged("messages",
                {MessageRow(id, a, b, NULL, FALSE, rep) :
                   id \in MessageIds, a \in Users, b \in Users,
                   rep \in MessageIds \cup {NULL}})
    \cup Tagged("group_members", {MemberRow("g1", u, FALSE) : u \in Users})

\* primary keys are unique and a reply names a message that exists
KeysHold(db) ==
  /\ \A x \in RowsOf("posts", db) : \A y \in RowsOf("posts", db) : x.id = y.id => x = y
  /\ \A x \in RowsOf("messages", db) : \A y \in RowsOf("messages", db) :
       x.id = y.id => x = y
  /\ \A x \in RowsOf("messages", db) :
       x.reply_to_id = NULL \/ x.reply_to_id \in {y.id : y \in RowsOf("messages", db)}

InitCascade ==
  /\ profiles = {ProfileRow(u) : u \in Users}
  /\ \E c \in Users : groups = {GroupRow("g1", c)}
  /\ \E db \in SubsetsUpTo(CandidateRows, MaxRows) :
       /\ KeysHold(db)
       /\ posts = RowsOf("posts", db)
       /\ follows = RowsOf("follows", db)
       /\ messages = RowsOf("messages", db)
       /\ group_members = RowsOf("group_members", db)
  /\ lastOp = NoOp
  /\ InitEval
  /\ InitStorage
  /\ InitCatalog
  /\ InitSettingsClosed

NextCascade == \E p \in Users : DeleteProfile(p)

SpecCascade == InitCascade /\ [][NextCascade]_vars

----------------------------------------------------------------------------
(* Clients upload to and delete from the bucket. *)

InitObjects ==
  /\ profiles = {ProfileRow(u) : u \in Users}
  /\ posts = {}
  /\ follows = {}
  /\ messages = {}
  /\ groups = {}
  /\ group_members = {}
  /\ lastOp = NoOp
  /\ InitEval
  /\ objects = {}
  /\ authUsersReadable \in BOOLEAN
  /\ InitCatalog
  /\ InitSettingsClosed

NextObjects ==
  \/ \E uid \in Users, b \in Buckets, k \in Keys : Upload(uid, b, k)
  \/ \E uid \in Users, row \in objects : DeleteObject(uid, row)

SpecObjects == InitObjects /\ [][NextObjects]_vars

----------------------------------------------------------------------------
(* The signed-in user on the Settings page, and one other profile whose    *)
(* owner renames it.                                                       *)

InitSettings ==
  /\ \E a \in WrittenNames, b \in WrittenNames :
       /\ a # b
       /\ profiles = {[ProfileRow(user.id) EXCEPT !.username = a],
                      [ProfileRow("u2") EXCEPT !.username = b]}
       /\ profile = [ProfileRow(user.id) EXCEPT !.username = a]
  /\ posts = {}
  /\ follows = {}
  /\ messages = {}
  /\ groups = {}
  /\ group_members = {}
  /\ lastOp = NoOp
  /\ InitEval
  /\ InitStorage
  /\ InitCatalog
  /\ newUsername \in Names
  /\ loading = FALSE
  /\ message = NoMessage
  /\ pc = "idle"
  /\ closure = NoClosure
  /\ timers = 0
  /\ sent = <<>>
  /\ InitPageClosed

NextSettings ==
  \/ \E n \in Names : setNewUsername(n)
  \/ EditUsername
  \/ handleUsernameChange
  \/ \E answered \in BOOLEAN : handleUsernameChangeChecked(answered)
  \/ \E answered \in BOOLEAN : handleUsernameChangeUpdated(answered)
  \/ Timeout
  \/ \E q \in Users, n \in WrittenNames : RenameOther(q, n)

SpecSettings == InitSettings /\ [][NextSettings]_vars

----------------------------------------------------------------------------
(* The signed-in user changes the theme, renames the profile and applies   *)
(* for verification; no other client writes the user's row.                *)

\* what the username input holds when the page is opened
EnteredNames == {<<>>, <<"A">>, <<"A", "a">>}

InitWorkflow ==
  /\ \E t \in ThemeNames :
       /\ profiles = {[ProfileRow(user.id) EXCEPT
                         !.username = <<"a">>, !.theme = t, !.verification_request = <<>>]}
       /\ profile = [ProfileRow(user.id) EXCEPT
                       !.username = <<"a">>, !.theme = t, !.verification_request = <<>>]
  /\ posts = {}
  /\ follows = {}
  /\ messages = {}
  /\ groups = {}
  /\ group_members = {}
  /\ lastOp = NoOp
  /\ InitEval
  /\ InitStorage
  /\ InitCatalog
  /\ newUsername \in EnteredNames
  /\ loading = FALSE
  /\ message = NoMessage
  /\ pc = "idle"
  /\ closure = NoClosure
  /\ timers = 0
  /\ sent = <<>>
  /\ InitPageClosed

NextWorkflow ==
  \/ \E t \in ThemeNames : handleThemeChange(t)
  \/ \E answered \in BOOLEAN : handleThemeChangeUpdated(answered)
  \/ ShowApply
  \/ \E r \in {<<>>, <<" ">>, <<"a">>} : setReason(r)
  \/ CancelApply
  \/ handleVerificationApply
  \/ \E answered \in BOOLEAN : handleVerificationApplyUpdated(answered)
  \/ \E answered \in BOOLEAN : VerificationReread(answered)
  \/ handleVerificationApplyReread
  \/ handleUsernameChange
  \/ \E answered \in BOOLEAN : handleUsernameChangeChecked(answered)
  \/ \E answered \in BOOLEAN : handleUsernameChangeUpdated(answered)
  \/ Timeout

\* every request sent is eventually answered or given up, and every timer
\* set eventually fires; a step that sets a timer waits for one of the
\* MaxTimers timers to be free, which happens again and again
SpecWorkflowFair ==
  /\ InitWorkflow
  /\ [][NextWorkflow]_vars
  /\ SF_vars(\E answered \in BOOLEAN : handleThemeChangeUpdated(answered))
  /\ SF_vars(\E answered \in BOOLEAN : handleVerificationApplyUpdated(answered))
  /\ WF_vars(\E answered \in BOOLEAN : VerificationReread(answered))
  /\ SF_vars(handleVerificationApplyReread)
  /\ WF_vars(\E answered \in BOOLEAN : handleUsernameChangeChecked(answered))
  /\ SF_vars(\E answered \in BOOLEAN : handleUsernameChangeUpdated(answered))
  /\ WF_vars(Timeout)

----------------------------------------------------------------------------
(* Two clients rename their profiles at the same time.                     *)

InitRace ==
  /\ \E a \in WrittenNames, b \in WrittenNames :
       /\ a # b
       /\ profiles = {[ProfileRow(user.id) EXCEPT !.username = a],
                      [ProfileRow("u2") EXCEPT !.username = b]}
       /\ profile = [ProfileRow(user.id) EXCEPT !.username = a]
       /\ other = [pc |-> "idle", name |-> <<>>, result |-> "none", cached |-> b]
  /\ posts = {}
  /\ follows = {}
  /\ messages = {}
  /\ groups = {}
  /\ group_members = {}
  /\ lastOp = NoOp
  /\ InitEval
  /\ InitStorage
  /\ InitCatalog
  /\ newUsername \in EnteredNames
  /\ loading = FALSE
  /\ message = NoMessage
  /\ pc = "idle"
  /\ closure = NoClosure
  /\ timers = 0
  /\ sent = <<>>
  /\ themeRun = NoThemeRun
  /\ reason = <<>>
  /\ showApply = FALSE
  /\ verifyRun = NoVerifyRun
  /\ newEmail = <<>>
  /\ newPassword = <<>>
  /\ confirmPassword = <<>>
  /\ accountRun = NoAccountRun
  /\ authUser = [email_change |-> <<>>, password |-> <<>>]

NextRace ==
  \/ \E n \in EnteredNames : setNewUsername(n)
  \/ handleUsernameChange
  \/ \E answered \in BOOLEAN : handleUsernameChangeChecked(answered)
  \/ \E answered \in BOOLEAN : handleUsernameChangeUpdated(answered)
  \/ Timeout
  \/ \E n \in EnteredNames : OtherUsernameChange(n)
  \/ OtherChecked
  \/ OtherUpdated

SpecRace == InitRace /\ [][NextRace]_vars

----------------------------------------------------------------------------
(* The policy statements are applied, and applied again.                   *)

InitDDL ==
  /\ profiles = {}
  /\ posts = {}
  /\ follows = {}
  /\ messages = {}
  /\ groups = {}
  /\ group_members = {}
  /\ lastOp = NoOp
  /\ InitEval
  /\ InitStorage
  /\ InitSettingsClosed
  \* the policies an earlier version of the schema may have left: the ones
  \* the file drops
  /\ pg_tables = {}
  /\ pg_policies \in SUBSET {PolicyOf(PolicyScript[i]) :
                               i \in {j \in DOMAIN PolicyScript : PolicyScript[j].op = "drop"}}
  \* the file is fed to the database statement by statement, or as one
  \* transaction
  /\ \E m \in {"autocommit", "transaction"} :
       ddl = [pass |-> 1, pos |-> 1, mode |-> m, begin |-> pg_policies, failed |-> {},
              applied |-> {}, appliedClean |-> FALSE]

NextDDL ==
  \/ DropPolicyIfExists
  \/ CreatePolicy
  \/ Reapply

SpecDDL == InitDDL /\ [][NextDDL]_vars

----------------------------------------------------------------------------
(* The CREATE TABLE statements are applied to a database of the platform:  *)
(* auth.users exists, and so may tables of an earlier version of the       *)
(* schema, each with the tables it references.                             *)

InitTables ==
  /\ profiles = {}
  /\ posts = {}
  /\ follows = {}
  /\ messages = {}
  /\ groups = {}
  /\ group_members = {}
  /\ lastOp = NoOp
  /\ InitEval
  /\ InitStorage
  /\ InitSettingsClosed
  /\ pg_policies = {}
  /\ pg_tables \in SUBSET ({"auth.users"} \cup {TableScript[i].table : i \in DOMAIN TableScript})
  /\ "auth.users" \in pg_tables
  /\ \A i \in DOMAIN TableScript :
       TableScript[i].table \in pg_tables => TableScript[i].references \subseteq pg_tables
  /\ ddl = [pass |-> 1, pos |-> 1, mode |-> "autocommit", begin |-> pg_tables, failed |-> {},
            applied |-> {}, appliedClean |-> FALSE]

NextTables == CreateTable

SpecTables == InitTables /\ [][NextTables]_vars

----------------------------------------------------------------------------
(* The signed-in user changes the email and the password.                  *)

InitAccount ==
  /\ profiles = {[ProfileRow(user.id) EXCEPT !.username = <<"a">>]}
  /\ profile = [ProfileRow(user.id) EXCEPT !.username = <<"a">>]
  /\ posts = {}
  /\ follows = {}
  /\ messages = {}
  /\ groups = {}
  /\ group_members = {}
  /\ lastOp = NoOp
  /\ InitEval
  /\ InitStorage
  /\ InitCatalog
  /\ newUsername = <<>>
  /\ loading = FALSE
  /\ message = NoMessage
  /\ pc = "idle"
  /\ closure = NoClosure
  /\ timers = 0
  /\ sent = <<>>
  /\ themeRun = NoThemeRun
  /\ reason = <<>>
  /\ showApply = FALSE
  /\ verifyRun = NoVerifyRun
  /\ newEmail \in Emails
  /\ newPassword = <<>>
  /\ confirmPassword = <<>>
  /\ accountRun = NoAccountRun
  /\ authUser = [email_change |-> <<>>, password |-> <<>>]
  /\ other = [pc |-> "idle", name |-> <<>>, result |-> "none", cached |-> <<>>]

NextAccount ==
  \/ \E e \in Emails : setNewEmail(e)
  \/ EditEmail
  \/ \E w \in Passwords : setNewPassword(w)
  \/ \E w \in Passwords : setConfirmPassword(w)
  \/ handleEmailChange
  \/ \E err \in {"", "rate limit exceeded", NULL} : handleEmailChangeUpdated(err)
  \/ handlePasswordChange
  \/ \E err \in {"", "rate limit exceeded", NULL} : handlePasswordChangeUpdated(err)
  \/ Timeout

SpecAccount == InitAccount /\ [][NextAccount]_vars

----------------------------------------------------------------------------
(* Properties *)

\* the caller has a group_members row for group id g
IsMember(uid, g) == \E gm \in group_members : gm.group_id = g /\ gm.user_id = uid

\* the caller is the creator of the groups row g or an admin member of it
HasStanding(uid, g) ==
  \/ g.creator_id = uid
  \/ \E gm \in group_members : gm.group_id = g.id /\ gm.user_id = uid /\ gm.is_admin = TRUE

\* C1: a message with a non-null group_id is returned by a SELECT on messages
\* to a caller iff group_members holds a row (that group_id, caller); being
\* the sender or the recipient makes no difference.
C1_GroupMessageVisibleIffMember ==
  \A m \in messages : \A uid \in Users :
    m.group_id # NULL => (m \in SelectMessages(uid) <=> IsMember(uid, m.group_id))

\* a group message whose sender has left the group and no longer sees it,
\* while a member who is neither its sender nor its recipient sees it
C1_Witness ==
  \E m \in messages : \E uid \in Users :
    /\ m.group_id # NULL
    /\ ~ IsMember(m.sender_id, m.group_id)
    /\ m \notin SelectMessages(m.sender_id)
    /\ uid \notin {m.sender_id, m.recipient_id}
    /\ IsMember(uid, m.group_id)
    /\ m \in SelectMessages(uid)

\* C2: a message is visible through the direct-message policy iff its
\* group_id is null and the caller is its sender or its recipient; a direct
\* message is returned to nobody else.
C2_DirectMessageVisibleToPair ==
  \A m \in messages : \A uid \in Users :
    /\ UsersCanViewDMs(uid, m) <=>
         (m.group_id = NULL /\ uid \in {m.sender_id, m.recipient_id})
    /\ m.group_id = NULL =>
         (m \in SelectMessages(uid) <=> uid \in {m.sender_id, m.recipient_id})

\* a direct message between two identities that the third identity, a member
\* of a group, does not get
C2_Witness ==
  \E m \in messages : \E uid \in Users :
    /\ m.group_id = NULL
    /\ m.sender_id # m.recipient_id
    /\ uid \notin {m.sender_id, m.recipient_id}
    /\ \E gm \in group_members : gm.user_id = uid
    /\ m \notin SelectMessages(uid)
    /\ m \in SelectMessages(m.sender_id)
    /\ m \in SelectMessages(m.recipient_id)

\* C3: a SELECT on group_members by identity A returns only rows whose
\* user_id is A, also when A is an admin or the creator of the group.
C3_MembersSelfOnly ==
  \A uid \in Users : \A gm \in SelectGroupMembers(uid) : gm.user_id = uid

\* an admin member and the creator of a group that has another member, whose
\* row neither of them is returned
C3_Witness ==
  \E g \in groups : \E a \in group_members : \E b \in group_members :
    /\ a.group_id = g.id /\ b.group_id = g.id
    /\ a.is_admin = TRUE
    /\ a.user_id # b.user_id
    /\ g.creator_id \notin {a.user_id, b.user_id, NULL}
    /\ b \notin SelectGroupMembers(a.user_id)
    /\ b \notin SelectGroupMembers(g.creator_id)
    /\ SelectGroupMembers(a.user_id) = {a}

\* C4: the creator of a group and every admin member of it is granted each
\* elevated operation on the group: inserting a member row, updating another
\* member's is_admin, deleting another member's row, updating and deleting
\* the groups row.
C4_ElevatedOperationsGranted ==
  \A g \in groups : \A uid \in Users :
    HasStanding(uid, g) =>
      /\ \A u \in ProfileIds : \A a \in BOOLEAN :
           ~ IsMember(u, g.id) => GrantInsertMember(uid, MemberRow(g.id, u, a))
      /\ \A gm \in group_members : \A a \in BOOLEAN :
           (gm.group_id = g.id /\ gm.user_id # uid) =>
             /\ GrantUpdateMember(uid, gm, [gm EXCEPT !.is_admin = a])
             /\ GrantDeleteMember(uid, gm)
      /\ GrantUpdateGroup(uid, g, g)
      /\ GrantDeleteGroup(uid, g)

C6_GroupVisibleToCreatorAndMembers ==
  \A g \in groups : \A uid \in Users :
    g \in SelectGroups(uid) <=> (g.creator_id = uid \/ IsMember(uid, g.id))

\* the only group is seen by its creator, who has no member row, and no
\* longer by the identity that has just deleted its own member row
C6_Witness ==
  \E g \in groups :
    /\ groups = {g}
    /\ g.creator_id # NULL
    /\ ~ IsMember(g.creator_id, g.id)
    /\ g \in SelectGroups(g.creator_id)
    /\ lastOp.kind = "delete_member" /\ lastOp.ok
    /\ lastOp.caller # g.creator_id
    /\ ~ IsMember(lastOp.caller, g.id)
    /\ g \notin SelectGroups(lastOp.caller)

\* C7: evaluating a statement's policies never re-enters a policy that is
\* under evaluation and always comes to an end; the group_members SELECT
\* policy queries no table, and a groups or messages policy evaluates nothing
\* but that policy.
C7_PolicyEvaluationTerminates ==
  /\ [](/\ \A i \in 1..Len(evalStack) : \A j \in 1..Len(evalStack) :
             i # j => evalStack[i].policy # evalStack[j].policy
        /\ Len(evalStack) < MaxEvalDepth
        /\ \A i \in 1..Len(evalStack) :
             /\ evalStack[i].policy = "Members viewable by self" =>
                  i = Len(evalStack) /\ evalStack[i].todo = {}
             /\ (i > 1 /\ evalStmt.table \in {"groups", "messages"}) =>
                  evalStack[i].policy = "Members viewable by self")
  /\ (evalStmt # NoStmt) ~> (evalStmt = NoStmt)

\* the insert policy of group_members is evaluating the groups SELECT policy,
\* which is evaluating the group_members SELECT policy
C7_Witness ==
  /\ Len(evalStack) = 3
  /\ evalStack[1].policy = "Admins and creators can insert members"
  /\ evalStack[2].policy = "Groups viewable by members"
  /\ evalStack[3].policy = "Members viewable by self"

\* the messages a delete of profile p removes
SentOrReceivedBy(p) == {m \in messages : m.sender_id = p \/ m.recipient_id = p}

\* after the step, no row refers to profile p
Unreferenced(p) ==
  /\ p \notin {x.id : x \in profiles'}
  /\ \A x \in posts' : x.user_id # p
  /\ \A x \in follows' : x.follower_id # p /\ x.following_id # p
  /\ \A x \in messages' : x.sender_id # p /\ x.recipient_id # p
  /\ \A x \in group_members' : x.user_id # p
  /\ \A x \in groups' : x.creator_id # p

\* the step removes the rows of posts, follows and group_members that refer
\* to p and no other, keeps every group, and sets creator_id to null exactly
\* in the groups p created
CascadeOutsideMessages(p) ==
  /\ profiles' = {x \in profiles : x.id # p}
  /\ posts' = {x \in posts : x.user_id # p}
  /\ follows' = {x \in follows : x.follower_id # p /\ x.following_id # p}
  /\ group_members' = {x \in group_members : x.user_id # p}
  /\ {g.id : g \in groups'} = {g.id : g \in groups}
  /\ Cardinality(groups') = Cardinality(groups)
  /\ \A g \in groups : \E h \in groups' :
       /\ h.id = g.id
       /\ h.creator_id = (IF g.creator_id = p THEN NULL ELSE g.creator_id)

\* C8 as stated: deleting profile P removes its posts, its follows in both
\* directions, the messages it sent or received and its member rows, keeps
\* the groups it created with creator_id null, leaves no row that refers to
\* P, and leaves all other rows unchanged.
C8_CascadeLeavesOtherRowsUnchanged ==
  [][ lastOp'.kind = "delete_profile" =>
        /\ CascadeOutsideMessages(lastOp'.caller)
        /\ Unreferenced(lastOp'.caller)
        /\ messages' = messages \ SentOrReceivedBy(lastOp'.caller)
    ]_vars

\* C8 (amended): as stated, except that a remaining message whose
\* reply_to_id named a removed message has reply_to_id set to null; its
\* other columns and all other rows are unchanged.
C8_CascadeNullsRepliesToRemoved ==
  [][ lastOp'.kind = "delete_profile" =>
        /\ CascadeOutsideMessages(lastOp'.caller)
        /\ Unreferenced(lastOp'.caller)
        /\ {m.id : m \in messages'} =
             {m.id : m \in messages \ SentOrReceivedBy(lastOp'.caller)}
        /\ Cardinality(messages') =
             Cardinality(messages \ SentOrReceivedBy(lastOp'.caller))
        /\ \A m \in messages \ SentOrReceivedBy(lastOp'.caller) : \E n \in messages' :
             /\ n.id = m.id
             /\ n.sender_id = m.sender_id /\ n.recipient_id = m.recipient_id
             /\ n.group_id = m.group_id /\ n.read = m.read
             /\ n.reply_to_id =
                  (IF m.reply_to_id \in {x.id : x \in SentOrReceivedBy(lastOp'.caller)}
                     THEN NULL ELSE m.reply_to_id)
    ]_vars

\* a profile that had created the group has been deleted: the group is kept
\* without a creator, and a message between the two other identities and a
\* follow between them remain
C8_Witness ==
  /\ lastOp.kind = "delete_profile"
  /\ Cardinality(profiles) = 2
  /\ \E g \in groups : g.creator_id = NULL
  /\ \A x \in profiles : x.id # lastOp.caller
  /\ \/ \E m \in messages : m.sender_id # m.recipient_id
     \/ \E f \in follows : f.follower_id # f.following_id

\* C9: a delete of an object in the media bucket removes it only when the
\* first path segment of its key is the caller's id as text; a caller whose
\* id text is not the first segment is denied, the uploader included.
C9_DeleteOnlyUnderOwnPrefix ==
  /\ [](\A row \in objects : \A uid \in Users :
          row.name[1] # UuidText(uid) => ~GrantDeleteObject(uid, row))
  /\ [][ lastOp'.kind = "delete_object" =>
           /\ objects' \subseteq objects
           /\ lastOp'.ok = (objects' # objects)
           /\ \A row \in objects \ objects' :
                /\ row.bucket_id = "media"
                /\ row.name[1] = UuidText(lastOp'.caller)
       ]_vars

\* the uploader of the only object, stored under another identity's
\* prefix, has just been denied its delete
C9_Witness ==
  /\ lastOp.kind = "delete_object"
  /\ ~lastOp.ok
  /\ authUsersReadable
  /\ \E row \in objects :
       /\ objects = {row}
       /\ row.owner = lastOp.caller
       /\ row.name[1] \in {UuidText(uid) : uid \in Users \ {lastOp.caller}}
       /\ Len(row.name) > 1

\* the step by which a run of handleUsernameChange for the entered name n
\* ends in the rejection of the name
Rejected ==
  /\ message' = Taken
  /\ profiles' = profiles
  /\ profile' = profile
  /\ pc' = "idle"

C11_RenamePersistsLowercaseAndPatchesCache ==
  [][ (lastOp'.kind = "username_update" /\ lastOp'.ok) =>
        /\ \A p \in profiles' :
             p.id = user.id => p.username = toLowerCase(closure.newUsername)
        /\ profile'.username = toLowerCase(closure.newUsername)
        /\ \A i \in 1..Len(profile'.username) : profile'.username[i] # "A"
        /\ \A p \in profiles : p.id # user.id => p.username # profile'.username
        /\ sent = <<"select profiles.id", "update profiles.username">>
        /\ sent' = sent
    ]_vars

\* a rename has just been accepted: the row and the cache hold the same
\* two-character name and the input is cleared
C11_Witness ==
  /\ lastOp.kind = "username_update"
  /\ lastOp.ok
  /\ message = Updated
  /\ newUsername = <<>>
  /\ profile \in profiles
  /\ Len(profile.username) = 2

\* the verification_request of the signed-in user's row after the step
OwnRequestAfter == {p.verification_request : p \in {q \in profiles' : q.id = user.id}}

C13_CacheConsistentWhenIdle ==
  (~loading /\ pc = "idle" /\ themeRun = NoThemeRun /\ verifyRun = NoVerifyRun) =>
    \A p \in profiles :
      p.id = user.id =>
        /\ profile.theme = p.theme
        /\ profile.username = p.username
        /\ profile.verification_request = p.verification_request

----------------------------------------------------------------------------
\* C15 (as stated): every run of handleEmailChange and of handlePasswordChange
\* issues exactly one identity-management request, no step of a run changes
\* the profiles row or the cached profile, and on failure the status message
\* text is the message of the error the identity service returned.
C15_OneRequestAndErrorVerbatim ==
  /\ [](lastOp.kind \in {"email_return", "email_call", "email_update",
                         "password_return", "password_call", "password_update"}
          => sent = <<"auth.updateUser">>)
  /\ [][lastOp'.kind \in {"email_return", "email_call", "email_update",
                          "password_return", "password_call", "password_update"}
          => profiles' = profiles /\ profile' = profile]_vars
  /\ []((lastOp.kind \in {"email_update", "password_update"} /\ ~lastOp.ok)
          => message = [type |-> "error", text |-> accountRun.error])

\* C15 (amended): a run that passes the handler's entry guard issues exactly
\* one identity-management request and a run that returns at the guard issues
\* none; no step of a run changes the profiles row or the cached profile; on
\* failure the status message text is the error's message when that is not
\* empty and the handler's generic text when it is.
C15_OneRequestPastGuardAndErrorOrGeneric ==
  /\ [](lastOp.kind \in {"email_call", "email_update", "password_call", "password_update"}
          => sent = <<"auth.updateUser">>)
  /\ [](lastOp.kind \in {"email_return", "password_return"} => sent = <<>>)
  /\ [][lastOp'.kind \in {"email_return", "email_call", "email_update",
                          "password_return", "password_call", "password_update"}
          => profiles' = profiles /\ profile' = profile]_vars
  /\ []((lastOp.kind = "email_update" /\ ~lastOp.ok)
          => message = [type |-> "error",
                          text |-> IF accountRun.error = "" THEN "Failed to update email."
                                                            ELSE accountRun.error])
  /\ []((lastOp.kind = "password_update" /\ ~lastOp.ok)
          => message = [type |-> "error",
                          text |-> IF accountRun.error = "" THEN "Failed to update password."
                                                            ELSE accountRun.error])
  /\ []((lastOp.kind \in {"email_update", "password_update"} /\ lastOp.ok)
          => message.type = "success")

\* the identity service refused a password change with a message of its own
C15_Witness ==
  /\ lastOp.kind = "password_update"
  /\ ~lastOp.ok
  /\ accountRun.error = "rate limit exceeded"
  /\ message.text = "rate limit exceeded"
  /\ sent = <<"auth.updateUser">>
  /\ profile \in profiles

----------------------------------------------------------------------------
\* C16: when the groups and group_members policy statements are applied again
\* to a database on which they were applied once without error, no statement
\* fails and the database ends with the same set of named policies.
C16_ReapplySucceeds ==
  (ddl.pass = 2 /\ ddl.appliedClean) =>
     /\ ddl.failed = {}
     /\ (ddl.pos > Len(PolicyScript) => pg_policies = ddl.applied)

----------------------------------------------------------------------------
\* C17: while two clients rename two different profiles, in every
\* interleaving of their pre-check reads and writes a write of a name is
\* accepted only when no other profile has that name, so of two writes of one
\* lowercased name at most one is accepted; no state has two profiles with
\* the same username; and a client whose write is rejected after its
\* pre-check passed shows 'Failed to update username.' and keeps its cached
\* username.
C17_ConcurrentRenameKeepsUnique ==
  /\ [](\A p \in profiles, q \in profiles : p.username = q.username => p.id = q.id)
  /\ [][(lastOp'.kind = "username_update" /\ lastOp'.ok)
          => /\ ~ \E p \in profiles :
                    p.id # user.id /\ p.username = toLowerCase(closure.newUsername)
             /\ \E p \in profiles' :
                    p.id = user.id /\ p.username = toLowerCase(closure.newUsername)]_vars
  /\ [][(lastOp'.kind = "other_update" /\ lastOp'.ok)
          => /\ ~ \E p \in profiles :
                    p.id # "u2" /\ p.username = toLowerCase(other.name)
             /\ \E p \in profiles' :
                    p.id = "u2" /\ p.username = toLowerCase(other.name)]_vars
  /\ [][(lastOp'.kind = "username_update" /\ ~lastOp'.ok)
          => /\ message' = Failed
             /\ profile' = profile
             /\ profiles' = profiles]_vars
  /\ [][(lastOp'.kind = "other_update" /\ ~lastOp'.ok)
          => /\ other'.result = "failed"
             /\ other'.cached = other.cached
             /\ profiles' = profiles]_vars

\* both pre-checks passed, the second client's write was accepted and the
\* write of the same lowercased name by the signed-in user was rejected
C17_Witness ==
  /\ lastOp.kind = "username_update"
  /\ ~lastOp.ok
  /\ sent = <<"select profiles.id", "update profiles.username">>
  /\ message = Failed
  /\ other.result = "updated"
  /\ toLowerCase(other.name) = toLowerCase(newUsername)
  /\ other.cached = toLowerCase(newUsername)
  /\ \E p \in profiles : p.id = "u2" /\ p.username = toLowerCase(newUsername)
  /\ \E p \in profiles : p.id = user.id /\ p.username = profile.username
  /\ profile.username # toLowerCase(newUsername)

----------------------------------------------------------------------------
\* C18: in every step of policy-permitted INSERTs and UPDATEs on messages, a
\* row that comes to carry a non-null group_id (a new row, or a row whose
\* group_id changed) does so through a request whose caller is the row's
\* sender_id and, before the step, a member of that group; and no step gives
\* a row that was a direct message a non-null group_id.
C18_GroupIdOnlyBySendingMember ==
  [][\A n \in messages' :
       (n.group_id # NULL /\ ~ \E m \in messages : m.id = n.id /\ m.group_id = n.group_id)
         => /\ lastOp'.caller = n.sender_id
            /\ IsMember(lastOp'.caller, n.group_id)
            /\ ~ \E m \in messages : m.id = n.id /\ m.group_id = NULL]_vars

\* C20: every granted UPDATE on messages is issued by the recipient of a
\* direct message and leaves the row as it was but for its read flag.
C20_UpdateOnlyMarksRead ==
  [][(lastOp'.kind = "update_message" /\ lastOp'.ok)
       => \E old \in messages :
            /\ old.group_id = NULL
            /\ old.recipient_id = lastOp'.caller
            /\ \E b \in BOOLEAN :
                 messages' = (messages \ {old}) \cup {[old EXCEPT !.read = b]}]_vars

----------------------------------------------------------------------------
\* C19: in every step of policy-permitted operations, when the group_members
\* rows of a group G or their is_admin flags change, the request was issued by
\* G's creator or by an admin member of G as they stood before the step, or
\* the step only removes the caller's own row; so a caller without that
\* standing neither adds a member to G nor makes anyone an admin of G.
C19_MembershipChangedOnlyWithStanding ==
  [][LET MembersOf(rows, g) == {gm \in rows : gm.group_id = g}
     IN \A g \in groups :
          MembersOf(group_members', g.id) # MembersOf(group_members, g.id)
            => \/ HasStanding(lastOp'.caller, g)
               \/ /\ MembersOf(group_members', g.id) \subseteq MembersOf(group_members, g.id)
                  /\ \A gm \in MembersOf(group_members, g.id)
                                 \ MembersOf(group_members', g.id) :
                       gm.user_id = lastOp'.caller]_vars

\* an admin member who is not the creator added the second member of a group
C19_Witness ==
  /\ lastOp.kind = "insert_member"
  /\ lastOp.ok
  /\ Cardinality(group_members) = 2
  /\ \E g \in groups :
       /\ g.creator_id # lastOp.caller
       /\ \E gm \in group_members :
            gm.group_id = g.id /\ gm.user_id = lastOp.caller /\ gm.is_admin = TRUE
       /\ \E gm \in group_members :
            gm.group_id = g.id /\ gm.user_id # lastOp.caller

----------------------------------------------------------------------------
\* C21: at most one settings operation is in flight at a time: while a run of
\* a handler has sent a request and has not yet processed its last response,
\* the shared loading flag is true and no run of another handler is in flight.
C21_OneOperationInFlight ==
  /\ (pc # "idle" \/ themeRun.pc # "idle" \/ verifyRun.pc # "idle") => loading
  /\ ~ (pc # "idle" /\ themeRun.pc # "idle")
  /\ ~ (pc # "idle" /\ verifyRun.pc # "idle")
  /\ ~ (themeRun.pc # "idle" /\ verifyRun.pc # "idle")

----------------------------------------------------------------------------
\* C22: when the CREATE TABLE statements are applied one by one in file order
\* to a database that has none of the tables, no statement fails, so at the
\* end every table of the file exists.
C22_EveryCreateTableSucceeds ==
  ddl.begin = {"auth.users"} =>
    /\ ddl.failed = {}
    /\ ddl.pos > Len(TableScript) =>
         \A i \in DOMAIN TableScript : TableScript[i].table \in pg_tables

====
